---- MODULE Spec2Model ----
(***************************************************************************)
(* The tunnel engine of vpn_client_zero_rated.py: start_vpn opens the TAP  *)
(* device and a UDP socket and starts two daemon threads, read_tap (Pump   *)
(* A: device -> encrypt -> sendto) and read_socket (Pump B: recvfrom ->    *)
(* decrypt -> device).  The Codec is cryptography's Fernet under one key   *)
(* generated when the module is loaded.                                    *)
(*                                                                         *)
(* Bytes are integers 0..255.  A datagram on the wire is a Fernet token,   *)
(* i.e. urlsafe base64 text; a base64 character is modelled by its 6-bit   *)
(* value 0..63 and the padding character '=' by 64.                        *)
(***************************************************************************)
EXTENDS Integers, Sequences, FiniteSets, TLC

\* ------------------------------------------------------------------------
\* Bounds of the model
\* ------------------------------------------------------------------------

\* Number of packets the operating system pushes into the TAP device.
MaxPackets == 2

\* Number of datagrams that arrive on the UDP socket.
MaxDatagrams == 2

\* Longest packet of the Codec trials (two AES blocks and one byte).
MaxTrialLen == 33

\* ------------------------------------------------------------------------
\* Program constants
\* ------------------------------------------------------------------------

\* PROXY_PORT; PROXY_IP is the string "proxy".
PROXY_PORT == 8080

PROXY_IP == "proxy"

\* The port the socket is bound to.
LOCAL_PORT == 5555

\* ReadFile(tap, 4096) and recvfrom(4096).
ReadCeiling == 4096

RecvCeiling == 4096

\* Constants of the Fernet format (cryptography.fernet): AES block of 16
\* bytes, version byte 0x80, 8 timestamp bytes, 16 IV bytes, 32 HMAC bytes.
BlockSize == 16

FernetVersion == 128

TimestampLen == 8

IvLen == 16

HmacLen == 32

\* The base64 padding character '='.
B64Pad == 64

\* Modulus of the keyed checksum that stands for HMAC-SHA256.
MacModulus == 257

\* The largest int(time.time()) of the model: 2^31 - 1.
MaxTime == 2147483647

\* ------------------------------------------------------------------------
\* Sequences of bytes
\* ------------------------------------------------------------------------

Min(a, b) == IF a < b THEN a ELSE b

\* data[:n]
Take(s, n) == SubSeq(s, 1, Min(n, Len(s)))

\* data[n:]
Drop(s, n) == SubSeq(s, n + 1, Len(s))

\* n bytes of value b
Fill(n, b) == [i \in 1..n |-> b]

\* struct.pack(">Q", t): eight bytes, big-endian.  The times of the model
\* are below 2^31, so the four high bytes are 0.
PackQ(t) ==
    << 0, 0, 0, 0, (t \div 16777216) % 256, (t \div 65536) % 256, (t \div 256) % 256, t % 256 >>

\* ------------------------------------------------------------------------
\* urlsafe base64
\* ------------------------------------------------------------------------

\* base64.urlsafe_b64encode: three bytes give four characters; the last
\* group is filled with '='.
B64Encode(b) ==
    LET n == Len(b)
        byte(k) == IF k <= n THEN b[k] ELSE 0
        char(k) ==
            LET q == (k - 1) \div 4
                r == (k - 1) % 4
                x == byte(3 * q + 1) * 65536 + byte(3 * q + 2) * 256 + byte(3 * q + 3)
            IN  IF r = 0 THEN x \div 262144
                ELSE IF r = 1 THEN (x \div 4096) % 64
                ELSE IF r = 2 THEN (IF 3 * q + 2 > n THEN B64Pad ELSE (x \div 64) % 64)
                ELSE (IF 3 * q + 3 > n THEN B64Pad ELSE x % 64)
    IN  [k \in 1..(4 * ((n + 2) \div 3)) |-> char(k)]

\* A decoding result: [ok |-> TRUE, val |-> bytes] or [ok |-> FALSE].
Ok(v) == [ok |-> TRUE, val |-> v]

Err == [ok |-> FALSE, val |-> << >>]

\* base64.urlsafe_b64decode; binascii.Error when the length is no multiple
\* of 4 or '=' stands anywhere but in the last one or two places.
B64Decode(s) ==
    LET m == Len(s)
        npad == IF m > 0 /\ s[m] = B64Pad
                THEN (IF s[m - 1] = B64Pad THEN 2 ELSE 1)
                ELSE 0
        char(k) == IF s[k] = B64Pad THEN 0 ELSE s[k]
        byte(i) ==
            LET q == (i - 1) \div 3
                r == (i - 1) % 3
            IN  IF r = 0 THEN ((char(4 * q + 1) * 4) + (char(4 * q + 2) \div 16)) % 256
                ELSE IF r = 1 THEN ((char(4 * q + 2) * 16) + (char(4 * q + 3) \div 4)) % 256
                ELSE ((char(4 * q + 3) * 64) + char(4 * q + 4)) % 256
    IN  IF m % 4 # 0 THEN Err
        ELSE IF \E k \in 1..(m - npad) : s[k] = B64Pad THEN Err
        ELSE Ok([i \in 1..(3 * (m \div 4) - npad) |-> byte(i)])

\* ------------------------------------------------------------------------
\* Fernet: AES-128-CBC with PKCS7 padding, HMAC-SHA256, base64
\* ------------------------------------------------------------------------

\* A Fernet key is 32 bytes: the signing key and the encryption key.  A key
\* is modelled by a small number from which both halves derive.  Key 1 is
\* the one Fernet.generate_key() returns in this process; the other keys
\* are those of other endpoints.
Keys == {1, 2}

ProcessKey == 1

\* Every Fernet object holding the same key, whatever key it was given.
FernetSameKey(key) == [signing_key |-> ProcessKey, encryption_key |-> 16 * ProcessKey + 3]

\* Fernet(key): the object holds the two halves of the key.
Fernet(key) == [signing_key |-> key, encryption_key |-> 16 * key + 3]

\* The 32 bytes of a key, and the key as Fernet.generate_key() returns it:
\* their urlsafe base64.
RawKey(key) ==
    Fill(BlockSize, Fernet(key).signing_key) \o Fill(BlockSize, Fernet(key).encryption_key)

KeyBytes(key) == B64Encode(RawKey(key))

\* padding.PKCS7(128).padder(): always 1..16 bytes, each the pad length
Pkcs7Pad(data) ==
    LET n == BlockSize - (Len(data) % BlockSize)
    IN  data \o Fill(n, n)

Pkcs7Unpad(padded) ==
    IF Len(padded) = 0 \/ Len(padded) % BlockSize # 0 THEN Err
    ELSE
        LET n == padded[Len(padded)]
        IN  IF /\ n \in 1..BlockSize
               /\ \A i \in (Len(padded) - n + 1)..Len(padded) : padded[i] = n
            THEN Ok(Take(padded, Len(padded) - n))
            ELSE Err

\* The sum, modulo 256, of the bytes at place r of the blocks lo..hi.
RECURSIVE ChainSum(_, _, _, _)
ChainSum(padded, r, lo, hi) ==
    IF lo = hi THEN padded[r + (BlockSize * lo)]
    ELSE LET mid == (lo + hi) \div 2
         IN  (ChainSum(padded, r, lo, mid) + ChainSum(padded, r, mid + 1, hi)) % 256

\* AES in CBC mode.  The block cipher is modelled bytewise by the keyed
\* permutation x |-> x + ek (mod 256), and each block is chained with the
\* previous ciphertext block (the IV for the first block):
\*     c[i] = (padded[i] + (IF i <= 16 THEN iv[i] ELSE c[i - 16]) + ek) % 256.
\* The chain is written unfolded, so that a packet of 4096 bytes (257
\* blocks) is within reach: byte r of block q is the IV byte plus the bytes
\* at place r of the blocks 0..q plus q + 1 times the key.
CbcEncrypt(ek, iv, padded) ==
    [i \in 1..Len(padded) |->
        LET q == (i - 1) \div BlockSize
            r == ((i - 1) % BlockSize) + 1
        IN  (iv[r] + ((q + 1) * ek) + ChainSum(padded, r, 0, q)) % 256]

CbcDecrypt(ek, iv, ciphertext) ==
    [i \in 1..Len(ciphertext) |->
        LET prev == IF i <= BlockSize THEN iv[i] ELSE ciphertext[i - BlockSize]
        IN  (ciphertext[i] - prev - ek) % 256]

\* HMAC-SHA256 is modelled by a keyed positional checksum modulo a prime,
\* spread over 32 bytes: it changes with the key and with any single byte.
RECURSIVE WeightedSum(_, _, _)
WeightedSum(data, lo, hi) ==
    IF lo > hi THEN 0
    ELSE IF lo = hi THEN (((lo % 256) + 1) * data[lo]) % MacModulus
    ELSE LET mid == (lo + hi) \div 2
         IN  (WeightedSum(data, lo, mid) + WeightedSum(data, mid + 1, hi)) % MacModulus

Hmac(sk, data) ==
    LET h == (sk + WeightedSum(data, 1, Len(data))) % MacModulus
    IN  [j \in 1..HmacLen |->
            IF j = 1 THEN h % 256 ELSE IF j = 2 THEN h \div 256 ELSE (h + j) % 256]

\* Fernet._encrypt_from_parts(data, current_time, iv)
FernetEncrypt(f, now, iv, data) ==
    LET ciphertext == CbcEncrypt(f.encryption_key, iv, Pkcs7Pad(data))
        basic == << FernetVersion >> \o PackQ(now) \o iv \o ciphertext
    IN  B64Encode(basic \o Hmac(f.signing_key, basic))

\* Fernet.decrypt(token) with ttl=None: base64, version byte, HMAC, AES,
\* unpadding; every failure is InvalidToken.
FernetDecrypt(f, token) ==
    LET raw == B64Decode(token)
    IN  IF ~raw.ok THEN Err
        ELSE IF Len(raw.val) < 1 + TimestampLen + IvLen + HmacLen THEN Err
        ELSE IF raw.val[1] # FernetVersion THEN Err
        ELSE
            LET basic == Take(raw.val, Len(raw.val) - HmacLen)
                tag == Drop(raw.val, Len(raw.val) - HmacLen)
                iv == SubSeq(basic, 2 + TimestampLen, 1 + TimestampLen + IvLen)
                ciphertext == Drop(basic, 1 + TimestampLen + IvLen)
            IN  IF tag # Hmac(f.signing_key, basic) THEN Err
                ELSE IF Len(ciphertext) % BlockSize # 0 THEN Err
                ELSE Pkcs7Unpad(CbcDecrypt(f.encryption_key, iv, ciphertext))

\* ------------------------------------------------------------------------
\* Inputs
\* ------------------------------------------------------------------------

\* The lengths of the packets the operating system hands to the TAP
\* device, in turn: a minimal 20-byte IPv4 header (first byte 0x45), longer
\* than an AES block, and a single byte.
PacketLens == << 20, 1 >>

PacketOfLen(n) == [i \in 1..n |-> IF i = 1 THEN 69 ELSE (37 * i) % 256]

\* The i-th packet routed into the device.
Traffic(i) == PacketOfLen(PacketLens[((i - 1) % Len(PacketLens)) + 1])

\* os.urandom(16) and int(time.time()) inside Fernet.encrypt.
IVs == {Fill(IvLen, 7)}

Times == {1700000000}

\* Sender addresses of datagrams: the configured proxy and a stranger.
PeerAddress == << PROXY_IP, PROXY_PORT >>

Stranger == << "stranger", 40000 >>

\* A datagram altered in transit: one base64 character changed.
Tamper(d) == [d EXCEPT ![Len(d) \div 2] = (@ + 1) % 64]

\* ------------------------------------------------------------------------
\* State
\* ------------------------------------------------------------------------

VARIABLES
    KEY,        \* KEY = Fernet.generate_key()
    CIPHER,     \* CIPHER = Fernet(KEY)
    trial,      \* a Codec trial: a packet, its token, the token decrypted
    main,       \* where the main thread is in start_vpn / __main__
    pump,       \* started threads: "A" read_tap, "B" read_socket -> state
    exc,        \* the uncaught exception that ended a thread, or "None"
    pcA,        \* read_tap: the call it is at
    packet,     \* read_tap: packet
    encrypted,  \* read_tap: encrypted
    pcB,        \* read_socket: the call it is at
    data,       \* read_socket: data
    decrypted,  \* read_socket: decrypted
    tapOk,      \* the TAP handle is usable
    tapQueue,   \* packets waiting in the TAP device for ReadFile
    sockQueue,  \* datagrams waiting in the socket for recvfrom
    injected,   \* history: packets pushed into the TAP device
    devReads,   \* history: results of ReadFile
    encCalls,   \* history: encrypt calls [inp, out]
    sendCalls,  \* history: sendto calls [payload, addr, ok, src]
    arrived,    \* history: number of datagrams that reached the socket
    recvCalls,  \* history: results of recvfrom [payload, from]
    decCalls,   \* history: decrypt calls [inp, ok, out]
    devWrites   \* history: packets given to WriteFile [packet, src]

codecVars == << KEY, CIPHER, trial >>

mainVars == << main, pump, exc >>

aVars == << pcA, packet, encrypted >>

bVars == << pcB, data, decrypted >>

tapVars == << tapOk, tapQueue, injected >>

sockVars == << sockQueue, arrived >>

aHist == << devReads, encCalls, sendCalls >>

bHist == << recvCalls, decCalls, devWrites >>

vars == << codecVars, mainVars, aVars, bVars, tapVars, sockVars, aHist, bHist >>

RUNNING == "RUNNING"

STOPPED == "STOPPED"

\* A thread that goes on after its target has raised.
AliveAfterRaise(p) == p \in DOMAIN pump

\* threading.Thread: alive between start() and the end of its target.
Alive(p) == p \in DOMAIN pump /\ pump[p] = RUNNING

\* The process lives until the main thread ends.
ProcessAlive == main \notin {"exit", "raised"}

\* An uncaught exception that takes every thread down.
RaiseEndsAll(p, e) ==
    /\ pump' = [q \in DOMAIN pump |-> STOPPED]
    /\ exc' = [exc EXCEPT ![p] = e]

\* An uncaught exception in a thread's target ends that thread only.
Raise(p, e) ==
    /\ pump' = [pump EXCEPT ![p] = STOPPED]
    /\ exc' = [exc EXCEPT ![p] = e]

\* ------------------------------------------------------------------------
\* The Codec
\* ------------------------------------------------------------------------

\* encrypt under a key generated anew instead of under CIPHER.
encryptFreshKey(d, now, iv) ==
    FernetEncrypt(Fernet(CHOOSE k \in Keys : k # KEY), now, iv, d)

\* encrypt(data): CIPHER.encrypt(data), with the time and IV Fernet draws.
encrypt(d, now, iv) == FernetEncrypt(CIPHER, now, iv, d)

\* decrypt(data): CIPHER.decrypt(data); not ok stands for InvalidToken.
decrypt(d) == FernetDecrypt(CIPHER, d)

\* No Codec trial: the tunnel runs.
NoTrial ==
    [stage |-> "none", packet |-> << >>, now |-> 0, iv |-> << >>,
     token |-> << >>, result |-> Err]

\* ------------------------------------------------------------------------
\* Init: the module is loaded, __main__ is about to call start_vpn()
\* ------------------------------------------------------------------------

Init ==
    /\ KEY = ProcessKey
    /\ CIPHER = Fernet(KEY)
    /\ trial = NoTrial
    /\ main = "CreateFile"
    /\ pump = << >>
    /\ exc = << >>
    /\ pcA = "ReadFile"
    /\ packet = << >>
    /\ encrypted = << >>
    /\ pcB = "recvfrom"
    /\ data = << >>
    /\ decrypted = << >>
    /\ tapOk = TRUE
    /\ tapQueue = << >>
    /\ sockQueue = << >>
    /\ injected = << >>
    /\ devReads = << >>
    /\ encCalls = << >>
    /\ sendCalls = << >>
    /\ arrived = 0
    /\ recvCalls = << >>
    /\ decCalls = << >>
    /\ devWrites = << >>

\* ------------------------------------------------------------------------
\* start_vpn and the main thread
\* ------------------------------------------------------------------------

\* tap = win32file.CreateFile(...)
StartVpnCreateFile ==
    /\ main = "CreateFile"
    /\ main' = "bind"
    /\ UNCHANGED << codecVars, pump, exc, aVars, bVars, tapVars, sockVars, aHist, bHist >>

\* CreateFile raises (no such TAP device): start_vpn raises, the process ends.
StartVpnCreateFileError ==
    /\ main = "CreateFile"
    /\ main' = "raised"
    /\ UNCHANGED << codecVars, pump, exc, aVars, bVars, tapVars, sockVars, aHist, bHist >>

\* sock = socket.socket(AF_INET, SOCK_DGRAM); sock.bind(("0.0.0.0", 5555))
StartVpnBind ==
    /\ main = "bind"
    /\ main' = "startA"
    /\ UNCHANGED << codecVars, pump, exc, aVars, bVars, tapVars, sockVars, aHist, bHist >>

\* bind raises (port 5555 in use): start_vpn raises, the process ends.
StartVpnBindError ==
    /\ main = "bind"
    /\ main' = "raised"
    /\ UNCHANGED << codecVars, pump, exc, aVars, bVars, tapVars, sockVars, aHist, bHist >>

\* threading.Thread(target=read_tap, daemon=True).start()
StartVpnThreadA ==
    /\ main = "startA"
    /\ main' = "startB"
    /\ pump' = ("A" :> RUNNING) @@ pump
    /\ exc' = ("A" :> "None") @@ exc
    /\ UNCHANGED << codecVars, aVars, bVars, tapVars, sockVars, aHist, bHist >>

\* threading.Thread(target=read_socket, daemon=True).start(); start_vpn
\* returns to its caller.
StartVpnThreadB ==
    /\ main = "startB"
    /\ main' = "return"
    /\ pump' = ("B" :> RUNNING) @@ pump
    /\ exc' = ("B" :> "None") @@ exc
    /\ UNCHANGED << codecVars, aVars, bVars, tapVars, sockVars, aHist, bHist >>

\* The caller ends after start_vpn() has returned, as the __main__ block
\* does: the interpreter exits and the daemon threads end with it.  (A
\* caller that imports the module may go on for any time.)
MainExit ==
    /\ main = "return"
    /\ main' = "exit"
    /\ pump' = [p \in DOMAIN pump |-> STOPPED]
    /\ UNCHANGED << codecVars, exc, aVars, bVars, tapVars, sockVars, aHist, bHist >>

\* ------------------------------------------------------------------------
\* The environment: the TAP device and the network
\* ------------------------------------------------------------------------

\* The operating system routes a packet into the TAP device.
TapInject ==
    /\ ProcessAlive
    /\ main # "CreateFile"
    /\ tapOk
    /\ Len(injected) < MaxPackets
    /\ \E p \in {Traffic(Len(injected) + 1)} :
        /\ tapQueue' = Append(tapQueue, p)
        /\ injected' = Append(injected, p)
    /\ UNCHANGED << codecVars, mainVars, aVars, bVars, tapOk, sockVars, aHist, bHist >>

\* The TAP handle becomes invalid (adapter disabled or removed).
TapFail ==
    /\ ProcessAlive
    /\ main # "CreateFile"
    /\ tapOk
    /\ tapOk' = FALSE
    /\ UNCHANGED << codecVars, mainVars, aVars, bVars, tapQueue, injected, sockVars, aHist, bHist >>

\* A token sealed by another endpoint, under its own key.
ForeignToken ==
    [k \in Keys |-> FernetEncrypt(Fernet(k), 1700000000, Fill(IvLen, 7), PacketOfLen(20))]

\* What the network can deliver to port 5555.  The key never leaves the
\* process, so the only tokens sealed under it are the ones this process
\* sent: a datagram that was sent may come back from the proxy, in any
\* order and any number of times; a stranger may replay the one sent first;
\* the one sent last may come back altered in transit; a stranger may send
\* a token sealed under its own key.
Deliverable ==
    LET okAt(J) == {sendCalls[j].payload : j \in {k \in J : k \in 1..Len(sendCalls) /\ sendCalls[k].ok}}
        sent == okAt(1..Len(sendCalls))
        first == okAt({1})
        last == okAt({Len(sendCalls)})
    IN       {[payload |-> d, from |-> PeerAddress] : d \in sent}
        \cup {[payload |-> d, from |-> Stranger] : d \in first}
        \cup {[payload |-> Tamper(d), from |-> PeerAddress] : d \in last}
        \cup {[payload |-> ForeignToken[k], from |-> Stranger] : k \in Keys \ {KEY}}

\* A datagram from any sender reaches port 5555.
DatagramArrive ==
    /\ ProcessAlive
    /\ main \notin {"CreateFile", "bind"}
    /\ arrived < MaxDatagrams
    /\ \E d \in Deliverable : sockQueue' = Append(sockQueue, d)
    /\ arrived' = arrived + 1
    /\ UNCHANGED << codecVars, mainVars, aVars, bVars, tapVars, aHist, bHist >>

\* ------------------------------------------------------------------------
\* read_tap: Pump A
\* ------------------------------------------------------------------------

\* read_tap taking its packet from the socket instead of the device.
ReadTapReadFileFromSocket ==
    /\ Alive("A")
    /\ pcA = "ReadFile"
    /\ sockQueue # << >>
    /\ packet' = Take(Head(sockQueue).payload, ReadCeiling)
    /\ sockQueue' = Tail(sockQueue)
    /\ devReads' = Append(devReads, packet')
    /\ pcA' = "encrypt"
    /\ UNCHANGED << codecVars, mainVars, encrypted, bVars, tapVars, arrived,
                    encCalls, sendCalls, bHist >>

\* packet = win32file.ReadFile(tap, 4096)[1]; blocks while no packet waits
ReadTapReadFile ==
    /\ Alive("A")
    /\ pcA = "ReadFile"
    /\ tapOk
    /\ tapQueue # << >>
    /\ packet' = Take(Head(tapQueue), ReadCeiling)
    /\ tapQueue' = Tail(tapQueue)
    /\ devReads' = Append(devReads, packet')
    /\ pcA' = "encrypt"
    /\ UNCHANGED << codecVars, mainVars, encrypted, bVars, tapOk, injected, sockVars,
                    encCalls, sendCalls, bHist >>

\* The error of ReadFile swallowed: the loop goes on with an empty packet.
ReadTapReadFileErrorRetried ==
    /\ Alive("A")
    /\ pcA = "ReadFile"
    /\ ~tapOk
    /\ packet' = << >>
    /\ devReads' = Append(devReads, packet')
    /\ pcA' = "encrypt"
    /\ UNCHANGED << codecVars, mainVars, encrypted, bVars, tapVars, sockVars,
                    encCalls, sendCalls, bHist >>

\* ReadFile raises on an invalid handle; nothing catches it.
ReadTapReadFileError ==
    /\ Alive("A")
    /\ pcA = "ReadFile"
    /\ ~tapOk
    /\ Raise("A", "ReadFile")
    /\ UNCHANGED << codecVars, main, aVars, bVars, tapVars, sockVars, aHist, bHist >>

\* encrypt generating a new key for every call.
ReadTapEncryptRekeys ==
    /\ Alive("A")
    /\ pcA = "encrypt"
    /\ KEY' = CHOOSE k \in Keys : k # KEY
    /\ CIPHER' = Fernet(KEY')
    /\ \E now \in Times, iv \in IVs :
        /\ encrypted' = FernetEncrypt(CIPHER', now, iv, packet)
        /\ encCalls' = Append(encCalls, [inp |-> packet, out |-> encrypted'])
    /\ pcA' = "sendto"
    /\ UNCHANGED << trial, mainVars, packet, bVars, tapVars, sockVars,
                    devReads, sendCalls, bHist >>

\* encrypted = encrypt(packet)
ReadTapEncrypt ==
    /\ Alive("A")
    /\ pcA = "encrypt"
    /\ \E now \in Times, iv \in IVs :
        /\ encrypted' = encrypt(packet, now, iv)
        /\ encCalls' = Append(encCalls, [inp |-> packet, out |-> encrypted'])
    /\ pcA' = "sendto"
    /\ UNCHANGED << codecVars, mainVars, packet, bVars, tapVars, sockVars,
                    devReads, sendCalls, bHist >>

\* sendto answering to whoever sent the datagram received last.
SendtoCallReply(ok) ==
    [payload |-> encrypted,
     addr |-> IF recvCalls = << >> THEN << PROXY_IP, PROXY_PORT >>
              ELSE recvCalls[Len(recvCalls)].from,
     ok |-> ok, src |-> Len(devReads)]

\* sendto given the packet instead of the token.
SendtoCallPlain(ok) ==
    [payload |-> packet, addr |-> << PROXY_IP, PROXY_PORT >>, ok |-> ok,
     src |-> Len(devReads)]

\* The sendto call of iteration number Len(devReads).
SendtoCall(ok) ==
    [payload |-> encrypted, addr |-> << PROXY_IP, PROXY_PORT >>, ok |-> ok,
     src |-> Len(devReads)]

\* sendto called twice for one packet.
ReadTapSendtoTwice ==
    /\ Alive("A")
    /\ pcA = "sendto"
    /\ sendCalls' = sendCalls \o << SendtoCall(TRUE), SendtoCall(TRUE) >>
    /\ pcA' = "ReadFile"
    /\ UNCHANGED << codecVars, mainVars, packet, encrypted, bVars, tapVars, sockVars,
                    devReads, encCalls, bHist >>

\* sock.sendto(encrypted, (PROXY_IP, PROXY_PORT)) returns
ReadTapSendto ==
    /\ Alive("A")
    /\ pcA = "sendto"
    /\ sendCalls' = Append(sendCalls, SendtoCall(TRUE))
    /\ pcA' = "ReadFile"
    /\ UNCHANGED << codecVars, mainVars, packet, encrypted, bVars, tapVars, sockVars,
                    devReads, encCalls, bHist >>

\* sendto raises OSError (network unreachable, name not resolved); nothing
\* catches it.
ReadTapSendtoError ==
    /\ Alive("A")
    /\ pcA = "sendto"
    /\ sendCalls' = Append(sendCalls, SendtoCall(FALSE))
    /\ Raise("A", "sendto")
    /\ UNCHANGED << codecVars, main, aVars, bVars, tapVars, sockVars,
                    devReads, encCalls, bHist >>

\* ------------------------------------------------------------------------
\* read_socket: Pump B
\* ------------------------------------------------------------------------

\* recvfrom followed by a check of the sender: a datagram that is not from
\* the configured peer is dropped.
ReadSocketRecvfromPeerOnly ==
    /\ Alive("B")
    /\ pcB = "recvfrom"
    /\ sockQueue # << >>
    /\ data' = Take(Head(sockQueue).payload, RecvCeiling)
    /\ sockQueue' = Tail(sockQueue)
    /\ recvCalls' = Append(recvCalls, [payload |-> data', from |-> Head(sockQueue).from])
    /\ pcB' = IF Head(sockQueue).from = PeerAddress THEN "decrypt" ELSE "recvfrom"
    /\ UNCHANGED << codecVars, mainVars, aVars, decrypted, tapVars, arrived,
                    aHist, decCalls, devWrites >>

\* data, _ = sock.recvfrom(4096); blocks while no datagram waits
ReadSocketRecvfrom ==
    /\ Alive("B")
    /\ pcB = "recvfrom"
    /\ sockQueue # << >>
    /\ data' = Take(Head(sockQueue).payload, RecvCeiling)
    /\ sockQueue' = Tail(sockQueue)
    /\ recvCalls' = Append(recvCalls, [payload |-> data', from |-> Head(sockQueue).from])
    /\ pcB' = "decrypt"
    /\ UNCHANGED << codecVars, mainVars, aVars, decrypted, tapVars, arrived,
                    aHist, decCalls, devWrites >>

\* The error of recvfrom ending both threads.
ReadSocketRecvfromErrorEndsAll ==
    /\ Alive("B")
    /\ pcB = "recvfrom"
    /\ RaiseEndsAll("B", "recvfrom")
    /\ UNCHANGED << codecVars, main, aVars, bVars, tapVars, sockVars, aHist, bHist >>

\* recvfrom raises OSError (the socket has become unusable); nothing
\* catches it.
ReadSocketRecvfromError ==
    /\ Alive("B")
    /\ pcB = "recvfrom"
    /\ Raise("B", "recvfrom")
    /\ UNCHANGED << codecVars, main, aVars, bVars, tapVars, sockVars, aHist, bHist >>

\* decrypted = decrypt(data)
ReadSocketDecrypt ==
    /\ Alive("B")
    /\ pcB = "decrypt"
    /\ decrypt(data).ok
    /\ decrypted' = decrypt(data).val
    /\ decCalls' = Append(decCalls, [inp |-> data, ok |-> TRUE, out |-> decrypted'])
    /\ pcB' = "WriteFile"
    /\ UNCHANGED << codecVars, mainVars, aVars, data, tapVars, sockVars,
                    aHist, recvCalls, devWrites >>

\* decrypt raises InvalidToken; nothing catches it.
ReadSocketDecryptError ==
    /\ Alive("B")
    /\ pcB = "decrypt"
    /\ ~decrypt(data).ok
    /\ decCalls' = Append(decCalls, [inp |-> data, ok |-> FALSE, out |-> << >>])
    /\ Raise("B", "InvalidToken")
    /\ UNCHANGED << codecVars, main, aVars, bVars, tapVars, sockVars,
                    aHist, recvCalls, devWrites >>

\* WriteFile given the packet decrypted first instead of the current one.
WriteFileCallStale == [packet |-> decCalls[1].out, src |-> Len(recvCalls)]

\* The WriteFile call of iteration number Len(recvCalls).
WriteFileCall == [packet |-> decrypted, src |-> Len(recvCalls)]

\* win32file.WriteFile(tap, decrypted)
ReadSocketWriteFile ==
    /\ Alive("B")
    /\ pcB = "WriteFile"
    /\ tapOk
    /\ devWrites' = Append(devWrites, WriteFileCall)
    /\ pcB' = "recvfrom"
    /\ UNCHANGED << codecVars, mainVars, aVars, data, decrypted, tapVars, sockVars,
                    aHist, recvCalls, decCalls >>

\* WriteFile raises on an invalid handle; nothing catches it.
ReadSocketWriteFileError ==
    /\ Alive("B")
    /\ pcB = "WriteFile"
    /\ ~tapOk
    /\ Raise("B", "WriteFile")
    /\ UNCHANGED << codecVars, main, aVars, bVars, tapVars, sockVars, aHist, bHist >>

\* ------------------------------------------------------------------------
\* Specifications
\* ------------------------------------------------------------------------

Next ==
    \/ StartVpnCreateFile
    \/ StartVpnCreateFileError
    \/ StartVpnBind
    \/ StartVpnBindError
    \/ StartVpnThreadA
    \/ StartVpnThreadB
    \/ MainExit
    \/ TapInject
    \/ TapFail
    \/ DatagramArrive
    \/ ReadTapReadFile
    \/ ReadTapReadFileError
    \/ ReadTapEncrypt
    \/ ReadTapSendto
    \/ ReadTapSendtoError
    \/ ReadSocketRecvfrom
    \/ ReadSocketRecvfromError
    \/ ReadSocketDecrypt
    \/ ReadSocketDecryptError
    \/ ReadSocketWriteFile
    \/ ReadSocketWriteFileError

Spec == Init /\ [][Next]_vars

\* The steps the pumps take by themselves once their call can return.  A
\* send that fails, a socket that breaks, a packet or datagram that arrives,
\* a device that is closed and the end of the caller are the environment's.
PumpAStep ==
    \/ ReadTapReadFile
    \/ ReadTapReadFileError
    \/ ReadTapEncrypt
    \/ ReadTapSendto

PumpBStep ==
    \/ ReadSocketRecvfrom
    \/ ReadSocketDecrypt
    \/ ReadSocketDecryptError
    \/ ReadSocketWriteFile
    \/ ReadSocketWriteFileError

\* ------------------------------------------------------------------------
\* The Codec alone: encrypt and decrypt applied to packets of every length
\* up to MaxTrialLen, under either key, with the tunnel not started
\* ------------------------------------------------------------------------

\* Packets of a length: mixed bytes, and bytes that look like PKCS7 padding.
TrialPackets ==
    UNION {{PacketOfLen(n), Fill(n, 1), Fill(n, BlockSize)} : n \in 0..MaxTrialLen}

\* Packets at the ceilings: the longest that ReadFile(tap, 4096) returns,
\* and the two around the length from which the token is longer than what
\* recvfrom(4096) returns.
CeilingPackets == {PacketOfLen(n) : n \in {3007, 3008, ReadCeiling}}

TrialIVs == {Fill(IvLen, 7), [i \in 1..IvLen |-> 255 - i]}

TrialTimes == {0, 1700000000, MaxTime}

CodecInit ==
    /\ KEY \in Keys
    /\ CIPHER = Fernet(KEY)
    /\ \/ \E p \in TrialPackets, now \in TrialTimes, iv \in TrialIVs :
            trial = [stage |-> "plain", packet |-> p, now |-> now, iv |-> iv,
                     token |-> << >>, result |-> Err]
       \/ \E p \in CeilingPackets, now \in Times, iv \in IVs :
            trial = [stage |-> "plain", packet |-> p, now |-> now, iv |-> iv,
                     token |-> << >>, result |-> Err]
    /\ main = "CreateFile"
    /\ pump = << >>
    /\ exc = << >>
    /\ pcA = "ReadFile"
    /\ packet = << >>
    /\ encrypted = << >>
    /\ pcB = "recvfrom"
    /\ data = << >>
    /\ decrypted = << >>
    /\ tapOk = TRUE
    /\ tapQueue = << >>
    /\ sockQueue = << >>
    /\ injected = << >>
    /\ devReads = << >>
    /\ encCalls = << >>
    /\ sendCalls = << >>
    /\ arrived = 0
    /\ recvCalls = << >>
    /\ decCalls = << >>
    /\ devWrites = << >>

\* token = encrypt(p)
TrialEncrypt ==
    /\ trial.stage = "plain"
    /\ trial' = [trial EXCEPT !.stage = "sealed",
                              !.token = encrypt(trial.packet, trial.now, trial.iv)]
    /\ UNCHANGED << KEY, CIPHER, mainVars, aVars, bVars, tapVars, sockVars, aHist, bHist >>

\* decrypt(token)
TrialDecrypt ==
    /\ trial.stage = "sealed"
    /\ trial' = [trial EXCEPT !.stage = "opened", !.result = decrypt(trial.token)]
    /\ UNCHANGED << KEY, CIPHER, mainVars, aVars, bVars, tapVars, sockVars, aHist, bHist >>

CodecNext ==
    \/ TrialEncrypt
    \/ TrialDecrypt

CodecSpec == CodecInit /\ [][CodecNext]_vars

\* ------------------------------------------------------------------------
\* Properties
\* ------------------------------------------------------------------------

\* Thread p ended with the uncaught exception e.
StoppedBy(p, e) == p \in DOMAIN pump /\ pump[p] = STOPPED /\ exc[p] = e

\* The sendto calls made for the i-th packet read from the device.
SendsOf(i) == {j \in 1..Len(sendCalls) : sendCalls[j].src = i}

\* The WriteFile calls made for the i-th datagram received.
WritesOf(i) == {j \in 1..Len(devWrites) : devWrites[j].src = i}

\* C1: when read_socket receives a datagram whose decrypt fails with an
\* authentication error, nothing is written to the device for it and
\* Pump B stays RUNNING, ready for the next datagram: the failure never is
\* what stopped Pump B.
C1_DecodeFailureIsDropped ==
    \A i \in 1..Len(decCalls) :
        ~decCalls[i].ok => WritesOf(i) = {} /\ ~StoppedBy("B", "InvalidToken")

\* C2: when sendto fails inside read_tap, Pump A does not stop: a failed
\* send never is what stopped Pump A.
C2_SendFailureKeepsPumpA ==
    \A j \in 1..Len(sendCalls) :
        ~sendCalls[j].ok => ~StoppedBy("A", "sendto")

\* C3: once start_vpn has started the two pumps, a pump leaves RUNNING only
\* through a fatal error on it: as long as no call of either pump has
\* raised, both pumps are RUNNING, also after start_vpn has returned.
C3_PumpsRunUntilAnError ==
    (DOMAIN pump = {"A", "B"} /\ \A p \in DOMAIN exc : exc[p] = "None")
        => \A p \in DOMAIN pump : pump[p] = RUNNING

\* C4: when the device is closed while Pump A is blocked in ReadFile, both
\* pumps reach STOPPED, also when no further datagram ever arrives: once
\* the closed device has stopped Pump A, Pump B is STOPPED as soon as it has
\* no step left to take by itself.
C4_DeviceFatalStopsBothPumps ==
    (StoppedBy("A", "ReadFile") /\ "B" \in DOMAIN pump /\ ~ENABLED PumpBStep)
        => pump["B"] = STOPPED

\* C5: every byte sequence passed to sendto is the output of one encrypt
\* call, made on the packet read from the device in that iteration, and
\* every byte sequence written to the device is the output of one decrypt
\* call that succeeded, made on the datagram received in that iteration: no
\* packet reaches the wire or the device without passing through the Codec.
C5_EveryPacketPassesTheCodec ==
    /\ \A j \in 1..Len(sendCalls) :
        LET i == sendCalls[j].src
        IN  /\ i \in 1..Len(encCalls)
            /\ sendCalls[j].payload = encCalls[i].out
            /\ encCalls[i].inp = devReads[i]
    /\ \A j \in 1..Len(devWrites) :
        LET i == devWrites[j].src
        IN  /\ i \in 1..Len(decCalls)
            /\ decCalls[i].ok
            /\ devWrites[j].packet = decCalls[i].out
            /\ decCalls[i].inp = recvCalls[i].payload

\* A token went to the wire and a decrypted packet went to the device.
C5_Witness ==
    /\ \E j \in 1..Len(sendCalls) : sendCalls[j].ok
    /\ Len(devWrites) >= 1

\* The step in which decrypt raises InvalidToken.
DecodeFailureStep ==
    /\ Len(decCalls') = Len(decCalls) + 1
    /\ ~decCalls'[Len(decCalls')].ok

\* C6: a decode failure on Pump B does not stop Pump A: the step in which
\* decrypt fails leaves Pump A's state, its variables and the device as they
\* are, and afterwards Pump A, while RUNNING, still takes its steps: it reads
\* the packet that waits and sends the token it holds.
C6_DecodeFailureLeavesPumpA ==
    /\ [][DecodeFailureStep =>
            /\ UNCHANGED << aVars, aHist, tapVars >>
            /\ "A" \in DOMAIN pump => (pump'["A"] = pump["A"] /\ exc'["A"] = exc["A"])]_vars
    /\ []((StoppedBy("B", "InvalidToken") /\ "A" \in DOMAIN pump /\ pump["A"] = RUNNING) =>
            /\ (pcA = "ReadFile" /\ tapOk /\ tapQueue # << >>) => ENABLED ReadTapReadFile
            /\ pcA = "sendto" => ENABLED ReadTapSendto)

\* Pump B has ended on a corrupted datagram; Pump A is RUNNING and has a
\* token to send.
C6_Witness ==
    /\ StoppedBy("B", "InvalidToken")
    /\ "A" \in DOMAIN pump
    /\ pump["A"] = RUNNING
    /\ pcA = "sendto"

\* C7: a pump is RUNNING or STOPPED, and STOPPED is absorbing: a pump that
\* has stopped never is RUNNING again and makes no further receive, encrypt
\* or decrypt, or send.
C7_StoppedIsAbsorbing ==
    /\ [](\A p \in DOMAIN pump : pump[p] \in {RUNNING, STOPPED})
    /\ [][\A p \in DOMAIN pump :
            pump[p] = STOPPED =>
                /\ p \in DOMAIN pump'
                /\ pump'[p] = STOPPED
                /\ p = "A" => UNCHANGED << aVars, aHist >>
                /\ p = "B" => UNCHANGED << bVars, bHist >>]_vars

\* Pump A has stopped while a packet waits in the device, and Pump B has
\* stopped while a datagram waits in the socket.
C7_Witness ==
    /\ StoppedBy("A", "sendto")
    /\ tapQueue # << >>
    /\ StoppedBy("B", "InvalidToken")
    /\ sockQueue # << >>

\* C8: for every packet pushed into the device whose iteration of Pump A
\* has ended with a send, the transport has seen exactly one sendto call
\* for it, and that call's payload decrypts under the process key to the
\* bytes pushed: no batching, no duplication, no loss inside the pump.
C8_OneSendPerPacket ==
    /\ Len(devReads) <= Len(injected)
    /\ \A i \in 1..Len(injected) :
        /\ Cardinality(SendsOf(i)) <= 1
        /\ \A j \in SendsOf(i) : decrypt(sendCalls[j].payload) = Ok(injected[i])
        /\ (i < Len(devReads) \/ (i = Len(devReads) /\ pcA = "ReadFile"))
              => Cardinality(SendsOf(i)) = 1

\* Two packets were pushed into the device and each was sent with success.
C8_Witness ==
    /\ Len(injected) = 2
    /\ injected[1] # injected[2]
    /\ Len(sendCalls) = 2
    /\ sendCalls[1].ok
    /\ sendCalls[2].ok

\* C9: decrypt(encrypt(p)) = p for every packet p, both calls on the same
\* Codec.
C9_RoundTrip == trial.stage = "opened" => trial.result = Ok(trial.packet)

\* A packet longer than one AES block went through encrypt and decrypt.
C9_Witness ==
    /\ trial.stage = "opened"
    /\ Len(trial.packet) > BlockSize
    /\ trial.result.ok

\* The decrypt calls that succeeded so far, in the order made.
Accepted == SelectSeq(decCalls, LAMBDA c : c.ok)

\* C10: within each pump packets are relayed in the order received: the
\* j-th sendto of Pump A carries the j-th packet ReadFile returned, and the
\* j-th WriteFile of Pump B carries the j-th received datagram that
\* decrypted.
C10_RelayedInOrder ==
    /\ Len(sendCalls) <= Len(encCalls)
    /\ Len(encCalls) <= Len(devReads)
    /\ \A j \in 1..Len(encCalls) : encCalls[j].inp = devReads[j]
    /\ \A j \in 1..Len(sendCalls) : sendCalls[j].payload = encCalls[j].out
    /\ Len(decCalls) <= Len(recvCalls)
    /\ \A j \in 1..Len(decCalls) : decCalls[j].inp = recvCalls[j].payload
    /\ Len(devWrites) <= Len(Accepted)
    /\ \A j \in 1..Len(devWrites) : devWrites[j].packet = Accepted[j].out

\* Two different packets went out in order and came back in the other
\* order; both were written to the device.
C10_Witness ==
    /\ Len(sendCalls) = 2
    /\ devReads[1] # devReads[2]
    /\ Len(devWrites) = 2
    /\ devWrites[1].packet = devReads[2]
    /\ devWrites[2].packet = devReads[1]

\* C18: for every packet of 0..4096 bytes, the ReadFile ceiling, the token
\* encrypt produces for it is at most 4096 characters long, so that
\* recvfrom(4096) returns it whole.
C18_TokenFitsRecvCeiling ==
    (trial.stage \in {"sealed", "opened"} /\ Len(trial.packet) <= ReadCeiling)
        => /\ Len(trial.token) <= RecvCeiling
           /\ Take(trial.token, RecvCeiling) = trial.token

\* The received datagrams that another endpoint sealed under its own key.
ForeignAt ==
    {i \in 1..Len(recvCalls) : \E k \in Keys \ {KEY} : recvCalls[i].payload = ForeignToken[k]}

\* C11: endpoints with independently generated keys never decrypt each
\* other's output: a datagram sealed by another endpoint under its own key
\* is refused by decrypt and never written to this endpoint's device.
C11_ForeignKeyNeverDelivered ==
    \A i \in ForeignAt :
        /\ WritesOf(i) = {}
        /\ i <= Len(decCalls) => ~decCalls[i].ok

\* Pump B has received another endpoint's token and called decrypt on it.
C11_Witness ==
    \E i \in ForeignAt :
        /\ i <= Len(decCalls)
        /\ recvCalls[i].from = Stranger
        /\ Len(recvCalls[i].payload) > 0

\* C12: the peer address is fixed: every sendto call of Pump A targets the
\* configured (PROXY_IP, PROXY_PORT), whoever the senders of the datagrams
\* Pump B has received are.
C12_PeerAddressFixed ==
    \A j \in 1..Len(sendCalls) : sendCalls[j].addr = PeerAddress

\* Pump B has received a datagram from a stranger, a replay of the first
\* datagram sent, and Pump A has sent a second datagram.
C12_Witness ==
    /\ Len(sendCalls) = 2
    /\ sendCalls[2].ok
    /\ \E i \in 1..Len(recvCalls) :
        /\ recvCalls[i].from = Stranger
        /\ recvCalls[i].payload = sendCalls[1].payload

\* Pump A is at ReadFile, or Pump B at WriteFile, on a handle that fails.
DeviceFailsA == ~tapOk /\ Alive("A") /\ pcA = "ReadFile"

DeviceFailsB == ~tapOk /\ Alive("B") /\ pcB = "WriteFile"

\* C13: a fatal error on a device operation terminates the pump that made
\* the call and is never retried: a pump at ReadFile or WriteFile on a
\* failed handle has the error as its one step, it makes no call while it
\* waits for it, the error leaves it STOPPED, and once stopped by it the
\* pump makes no further call on the device or the transport.
C13_DeviceErrorTerminatesPump ==
    /\ [](DeviceFailsA => (ENABLED ReadTapReadFileError /\ ~ENABLED ReadTapReadFile))
    /\ [](DeviceFailsB => (ENABLED ReadSocketWriteFileError /\ ~ENABLED ReadSocketWriteFile))
    /\ [][DeviceFailsA => (UNCHANGED << aVars, aHist, tapQueue >> /\ exc'["A"] \in {"None", "ReadFile"})]_vars
    /\ [][DeviceFailsB => (UNCHANGED << bVars, bHist >> /\ exc'["B"] \in {"None", "WriteFile"})]_vars
    /\ [][\A p \in {"A", "B"}, e \in {"ReadFile", "WriteFile"} :
            StoppedBy(p, e) =>
                /\ pump'[p] = STOPPED
                /\ exc'[p] = e
                /\ p = "A" => UNCHANGED << aVars, aHist >>
                /\ p = "B" => UNCHANGED << bVars, bHist >>]_vars

\* The handle failed; Pump A was ended by ReadFile with a packet still in
\* the device, and Pump B by WriteFile.
C13_Witness ==
    /\ StoppedBy("A", "ReadFile")
    /\ StoppedBy("B", "WriteFile")
    /\ tapQueue # << >>

\* The step in which recvfrom raises.
RecvfromErrorStep ==
    /\ "B" \in DOMAIN exc
    /\ exc["B"] = "None"
    /\ exc'["B"] = "recvfrom"

\* C14: a fatal error of recvfrom stops Pump B and only Pump B: the step
\* leaves Pump A, its variables and its calls as they are, and for as long
\* as the process lives afterwards Pump A is RUNNING or was stopped by an
\* error of its own ReadFile or sendto.
C14_RecvErrorStopsOnlyPumpB ==
    /\ [][RecvfromErrorStep =>
            /\ pump'["B"] = STOPPED
            /\ pump'["A"] = pump["A"]
            /\ exc'["A"] = exc["A"]
            /\ UNCHANGED << aVars, aHist, tapVars >>]_vars
    /\ []((StoppedBy("B", "recvfrom") /\ ProcessAlive) =>
            \/ pump["A"] = RUNNING
            \/ exc["A"] \in {"ReadFile", "sendto"})

\* recvfrom has ended Pump B; Pump A is RUNNING, has sent one datagram and
\* holds the token of the next.
C14_Witness ==
    /\ StoppedBy("B", "recvfrom")
    /\ pump["A"] = RUNNING
    /\ Len(sendCalls) = 1
    /\ pcA = "sendto"

\* C15: Pump B applies no sender validation: a datagram received from any
\* sender is passed to decrypt, if decrypt succeeds the plaintext is written
\* to the device, and equal datagrams meet the same fate whoever sent them.
C15_NoSenderValidation ==
    /\ \A i \in 1..Len(recvCalls) :
        /\ (i < Len(recvCalls) \/ pcB # "decrypt") =>
                /\ i <= Len(decCalls)
                /\ decCalls[i].inp = recvCalls[i].payload
        /\ (i <= Len(decCalls) /\ decCalls[i].ok /\ (i < Len(recvCalls) \/ pcB = "recvfrom")) =>
                \E j \in WritesOf(i) : devWrites[j].packet = decCalls[i].out
    /\ \A i, j \in 1..Len(decCalls) :
        recvCalls[i].payload = recvCalls[j].payload => decCalls[i].ok = decCalls[j].ok

\* A datagram from a stranger was decrypted and written to the device, and
\* one from the configured peer as well.
C15_Witness ==
    /\ \E j \in 1..Len(devWrites) : recvCalls[devWrites[j].src].from = Stranger
    /\ \E j \in 1..Len(devWrites) : recvCalls[devWrites[j].src].from = PeerAddress

\* A step taken by read_tap, and one taken by read_socket.
StepOfA ==
    /\ Alive("A")
    /\ (aVars' # aVars \/ aHist' # aHist \/ exc'["A"] # exc["A"])

StepOfB ==
    /\ Alive("B")
    /\ (bVars' # bVars \/ bHist' # bHist \/ exc'["B"] # exc["B"])

\* C16: each pump uses each handle for one operation only.  No step of
\* Pump A writes the device or receives from the socket, and no step of
\* Pump B reads the device or sends on the socket; a packet leaves the
\* device only in a ReadFile of Pump A, a datagram leaves the socket only in
\* a recvfrom of Pump B, sendto is called only by Pump A and WriteFile only
\* by Pump B.
C16_OneOperationPerHandle ==
    /\ [][StepOfA => UNCHANGED << bVars, bHist, sockQueue >>]_vars
    /\ [][StepOfB => UNCHANGED << aVars, aHist, tapQueue >>]_vars
    /\ [][(tapQueue' # tapQueue /\ injected' = injected) =>
            (StepOfA /\ pcA = "ReadFile" /\ devReads' = Append(devReads, Head(tapQueue)))]_vars
    /\ [][(sockQueue' # sockQueue /\ arrived' = arrived) =>
            (StepOfB /\ pcB = "recvfrom" /\ Len(recvCalls') = Len(recvCalls) + 1)]_vars
    /\ [][sendCalls' # sendCalls => (StepOfA /\ pcA = "sendto")]_vars
    /\ [][devWrites' # devWrites => (StepOfB /\ pcB = "WriteFile")]_vars

\* Both pumps are running in the middle of their second iteration: Pump A
\* has read two packets and sent one, Pump B has received two datagrams and
\* written one.
C16_Witness ==
    /\ Alive("A")
    /\ Alive("B")
    /\ Len(devReads) = 2
    /\ Len(sendCalls) = 1
    /\ Len(recvCalls) = 2
    /\ Len(devWrites) = 1

\* C17: the key is generated once and the Codec is read-only afterwards: no
\* step of either pump, encrypt and decrypt calls included, changes KEY or
\* CIPHER, CIPHER holds KEY, and no payload given to sendto is the key, as
\* raw bytes or as the text generate_key returned.
C17_KeyReadOnlyAndNeverSent ==
    /\ [][KEY' = KEY /\ CIPHER' = CIPHER]_vars
    /\ [](KEY = ProcessKey /\ CIPHER = Fernet(KEY))
    /\ [](\A j \in 1..Len(sendCalls) :
            sendCalls[j].payload \notin {KeyBytes(KEY), RawKey(KEY)})

\* Both pumps have called the Codec and are about to call it again, Pump A
\* in encrypt and Pump B in decrypt.
C17_Witness ==
    /\ Len(encCalls) >= 1
    /\ Len(decCalls) >= 1
    /\ Alive("A")
    /\ Alive("B")
    /\ pcA = "encrypt"
    /\ pcB = "decrypt"

====
